---- MODULE Spec2Model ----
(***************************************************************************)
(* The Reconnect Engine of openclaw-better-gateway (src/src/inject.js):    *)
(* the wrapped WebSocket constructor, its open/close/error listeners, the  *)
(* retry timers they schedule, the status indicator and the global         *)
(* online/offline listeners, as one state machine.  One action is one      *)
(* callback of the single-threaded event loop.                             *)
(***************************************************************************)
EXTENDS Naturals, Sequences, FiniteSets, TLC

VARIABLES
  config,             \* inject.js:4    const config
  reconnectAttempts,  \* inject.js:9    let reconnectAttempts
  statusIndicator,    \* inject.js:10   let statusIndicator (Null until created)
  activeConnections,  \* inject.js:12   let activeConnections
  currentState,       \* inject.js:13   let currentState
  sockets,            \* every native socket constructed at inject.js:112, in order
  timers,             \* pending retry callbacks of inject.js:132, in scheduling order
  fadeTimers,         \* pending fade callbacks of inject.js:102
  domLoading,         \* the DOMContentLoaded listener of inject.js:165 is pending
  restoreTimers,      \* pending text-restore callbacks of inject.js:44, in order
  pageRefs,           \* what each new WebSocket(...) of page code returned, in order
  reruns,             \* the closures of later executions of the script in the page
  http                \* the plugin's HTTP handler at work on one request (index.ts)

vars == <<config, reconnectAttempts, statusIndicator, activeConnections,
          currentState, sockets, timers, fadeTimers, domLoading,
          restoreTimers, pageRefs, reruns, http>>

-----------------------------------------------------------------------------
(* Bounds of the model. *)

\* Native sockets constructed during one page lifetime (page-made and retries).
MaxSockets == 4
\* Pending fade callbacks kept apart; later ones coalesce (all write the same).
MaxFadeTimers == 1
\* Clicks on the indicator whose text restore is still pending.
MaxRestoreTimers == 1
\* Executions of the script in one page after the first.
MaxReruns == 2

-----------------------------------------------------------------------------
(* Values. *)

\* let statusIndicator = null: no element yet.
Null == [id |-> "null"]
\* An absent global, and an omitted protocols argument.
Undefined == [defined |-> FALSE]
NoProtocols == <<>>
\* The plugin's handler with no request at hand.
Idle == [pc |-> "idle"]

\* window.__BETTER_GATEWAY_CONFIG__ as the page may carry it: absent, or the
\* object the server embeds.
WindowConfigs ==
  { Undefined,
    [reconnectIntervalMs |-> 100,  maxReconnectAttempts |-> 0],
    [reconnectIntervalMs |-> 100,  maxReconnectAttempts |-> 1],
    [reconnectIntervalMs |-> 5000, maxReconnectAttempts |-> 2] }

\* The global present but lacking one or both settings (other properties do
\* not matter to the script).
MalformedConfigs ==
  { [debug |-> TRUE],
    [reconnectIntervalMs |-> 100],
    [maxReconnectAttempts |-> 1] }

\* o[f] as JavaScript reads it: undefined for a property the object lacks.
Prop(o, f) == IF f \in DOMAIN o THEN o[f] ELSE Undefined

\* A comparison with undefined (NaN as a number) is false, whichever it is.
Comparable(o, f) == f \in DOMAIN o

DefaultConfig == [reconnectIntervalMs |-> 3000, maxReconnectAttempts |-> 10]

\* const config = window.__BETTER_GATEWAY_CONFIG__ || {...}
LoadConfig(w) == IF w = Undefined THEN DefaultConfig ELSE w

\* The page's script: the new WebSocket(url, protocols) calls it makes, in order.
PageCalls ==
  << [url |-> "ws://localhost:8080", protocols |-> NoProtocols],
     [url |-> "ws://localhost:8080/b", protocols |-> <<"protocol1">>] >>

SocketIds == 1..Len(sockets)

-----------------------------------------------------------------------------
(* updateStatus and the indicator element. *)

\* const styles = {...}; styles[state] || styles.disconnected
Styles(state) ==
  CASE state = "connected" ->
         [background |-> "#10b981", color |-> "#ffffff", icon |-> "U+25CF", clickHint |-> ""]
    [] state = "reconnecting" ->
         [background |-> "#f59e0b", color |-> "#ffffff", icon |-> "U+21BB", clickHint |-> ""]
    [] state = "failed" ->
         [background |-> "#6b7280", color |-> "#ffffff", icon |-> "U+21BB",
          clickHint |-> " (click to refresh)"]
    [] OTHER ->
         [background |-> "#ef4444", color |-> "#ffffff", icon |-> "U+25CF",
          clickHint |-> " (click to refresh)"]

\* indicator.innerHTML = `<span ...>${style.icon}</span>${displayMessage}`
InnerHTML(state, message) ==
  "<span style='margin-right: 6px;'>" \o Styles(state).icon \o "</span>"
    \o message \o Styles(state).clickHint

\* The opacity createStatusIndicator leaves: cssText sets none.
CreatedOpacity == ""

\* The element updateStatus leaves behind in a closure whose statusIndicator
\* was indicator: createStatusIndicator makes one only if the closure has none;
\* opacity is rewritten at once only for a state other than connected.
IndicatorOf(indicator, state, message) ==
  [ id         |-> "better-gateway-status",
    innerHTML  |-> InnerHTML(state, message),
    background |-> Styles(state).background,
    color      |-> Styles(state).color,
    title      |-> IF state = "connected" THEN "Click for status"
                                          ELSE "Click to refresh page",
    opacity    |-> IF state = "connected"
                     THEN (IF indicator = Null THEN CreatedOpacity
                                               ELSE indicator.opacity)
                     ELSE "1" ]

IndicatorAfter(state, message) == IndicatorOf(statusIndicator, state, message)

\* One more pending fade callback (coalescing at the bound).
FadeScheduled == IF fadeTimers < MaxFadeTimers THEN fadeTimers + 1 ELSE fadeTimers

\* updateStatus(state, message) in the closure c of a later execution.
ClosureUpdate(c, state, message) ==
  [ statusIndicator |-> IndicatorOf(c.statusIndicator, state, message),
    currentState    |-> state,
    fadeTimers      |-> IF state = "connected" /\ c.fadeTimers < MaxFadeTimers
                          THEN c.fadeTimers + 1 ELSE c.fadeTimers ]

\* A window or document event reaches the listener of every later closure too.
RerunsUpdated(state, message) ==
  IF reruns = <<>> THEN <<>>
  ELSE [i \in 1..Len(reruns) |-> ClosureUpdate(reruns[i], state, message)]

\* function updateStatus(state, message)
UpdateStatus(state, message) ==
  /\ currentState' = state
  /\ statusIndicator' = IndicatorAfter(state, message)
  /\ fadeTimers' = IF state = "connected" THEN FadeScheduled ELSE fadeTimers

\* setTimeout(function () { indicator.style.opacity = "0.7"; }, 2000)
FadeFire ==
  /\ fadeTimers > 0
  /\ fadeTimers' = fadeTimers - 1
  /\ statusIndicator' = [statusIndicator EXCEPT !.opacity = "0.7"]
  /\ UNCHANGED <<config, reconnectAttempts, activeConnections, currentState,
                 sockets, timers, domLoading, restoreTimers, pageRefs, reruns, http>>

\* The element the first updateStatus("connected", "Ready") creates.
ReadyIndicator ==
  [ id         |-> "better-gateway-status",
    innerHTML  |-> InnerHTML("connected", "Ready"),
    background |-> Styles("connected").background,
    color      |-> Styles("connected").color,
    title      |-> "Click for status",
    opacity    |-> CreatedOpacity ]

\* statusIndicator.innerHTML of the click handler's feedback.
AllGoodHTML == "<span style='margin-right: 6px;'>U+2713</span>All systems go!"

\* window.location.reload(): the page and the script start over, with the
\* configuration the server embeds; every pending callback is dropped.
Reload ==
  /\ config' = config
  /\ reconnectAttempts' = 0
  /\ activeConnections' = {}
  /\ sockets' = <<>>
  /\ timers' = <<>>
  /\ restoreTimers' = <<>>
  /\ pageRefs' = <<>>
  /\ reruns' = <<>>
  /\ http' = http
  /\ currentState' = "connected"
  /\ \E loading \in BOOLEAN :
        /\ domLoading' = loading
        /\ statusIndicator' = IF loading THEN Null ELSE ReadyIndicator
        /\ fadeTimers' = IF loading THEN 0 ELSE 1

\* statusIndicator.addEventListener("click", ...)
Click ==
  /\ statusIndicator # Null
  /\ IF currentState \in {"failed", "disconnected"}
       THEN Reload
       ELSE /\ IF currentState = "connected"
                 THEN /\ Len(restoreTimers) < MaxRestoreTimers
                      /\ statusIndicator' = [statusIndicator EXCEPT !.innerHTML = AllGoodHTML]
                      /\ restoreTimers' = Append(restoreTimers, statusIndicator.innerHTML)
                 ELSE UNCHANGED <<statusIndicator, restoreTimers>>
            /\ UNCHANGED <<config, reconnectAttempts, activeConnections, currentState,
                           sockets, timers, fadeTimers, domLoading, pageRefs, reruns,
                           http>>

\* setTimeout(function () { statusIndicator.innerHTML = original; }, 1500)
RestoreFire ==
  /\ restoreTimers # <<>>
  /\ statusIndicator' = [statusIndicator EXCEPT !.innerHTML = Head(restoreTimers)]
  /\ restoreTimers' = Tail(restoreTimers)
  /\ UNCHANGED <<config, reconnectAttempts, activeConnections, currentState,
                 sockets, timers, fadeTimers, domLoading, pageRefs, reruns, http>>

-----------------------------------------------------------------------------
(* The wrapped constructor and its listeners. *)

\* The listeners BetterWebSocket registers on the socket, counted per event:
\* one addEventListener call each for open, close and error.
Listeners == [open |-> 1, close |-> 1, error |-> 1]

\* The native socket new OriginalWebSocket(url, protocols) returns.  spawnedBy
\* is 0 when page code ran the constructor (and so received the object), else
\* the socket whose close listener scheduled the retry (result discarded).
NewSocket(url, protocols, spawnedBy) ==
  [ url        |-> url,
    protocols  |-> protocols,
    readyState |-> "CONNECTING",
    opened     |-> FALSE,
    wasClean   |-> FALSE,
    spawnedBy  |-> spawnedBy,
    listeners  |-> Listeners ]

\* function BetterWebSocket(url, protocols)
BetterWebSocket(url, protocols, spawnedBy) ==
  /\ sockets' = Append(sockets, NewSocket(url, protocols, spawnedBy))
  /\ activeConnections' = activeConnections \cup {Len(sockets) + 1}

\* A slip: the socket of the call before (none, 0, at the first) is returned.
ReturnedStale == Len(sockets)

\* return ws: the native socket just constructed.
ReturnedSocket == Len(sockets) + 1

\* Page code: new WebSocket(url, protocols)
PageNewWebSocket(k) ==
  /\ Len(sockets) < MaxSockets
  /\ k = Cardinality({s \in SocketIds : sockets[s].spawnedBy = 0}) + 1
  /\ BetterWebSocket(PageCalls[k].url, PageCalls[k].protocols, 0)
  /\ pageRefs' = Append(pageRefs, ReturnedSocket)
  /\ UNCHANGED <<config, reconnectAttempts, statusIndicator, currentState,
                 timers, fadeTimers, domLoading, restoreTimers, reruns, http>>

\* A slip: the open listener leaves the counter as it was.
AttemptsAfterOpenKept == reconnectAttempts

\* reconnectAttempts = 0 in the open listener: the counter it leaves.
AttemptsAfterOpen == 0

\* A slip: an open clears the retries still waiting.
OnOpenCancels(s) ==
  /\ sockets[s].readyState = "CONNECTING"
  /\ sockets' = [sockets EXCEPT ![s].readyState = "OPEN", ![s].opened = TRUE]
  /\ reconnectAttempts' = 0
  /\ UpdateStatus("connected", "Connected")
  /\ timers' = <<>>
  /\ UNCHANGED <<config, activeConnections, domLoading, restoreTimers, pageRefs, reruns, http>>

\* ws.addEventListener("open", ...)
OnOpen(s) ==
  /\ sockets[s].readyState = "CONNECTING"
  /\ sockets' = [sockets EXCEPT ![s].readyState = "OPEN", ![s].opened = TRUE]
  /\ reconnectAttempts' = AttemptsAfterOpen
  /\ UpdateStatus("connected", "Connected")
  /\ UNCHANGED <<config, activeConnections, timers, domLoading, restoreTimers, pageRefs, reruns, http>>

\* Slips of the retry condition: <= for <, the clean flag ignored, and the
\* budget cut one short.
ShouldRetryInclusive(wasClean, attempts, max) == ~wasClean /\ attempts <= max
ShouldRetryAnyClose(wasClean, attempts, max) == attempts < max
ShouldRetryOneShort(wasClean, attempts, max) == ~wasClean /\ attempts + 1 < max

\* !event.wasClean && reconnectAttempts < config.maxReconnectAttempts
ShouldRetry(wasClean, attempts, max) == ~wasClean /\ attempts < max

\* A slip of the failed condition: > for >=.
RetriesExhaustedStrict(attempts, max) == attempts > max

\* reconnectAttempts >= config.maxReconnectAttempts
RetriesExhausted(attempts, max) == attempts >= max

\* "Reconnecting (" + reconnectAttempts + "/" + config.maxReconnectAttempts + ")..."
ReconnectingMessage(attempts, max) ==
  "Reconnecting (" \o ToString(attempts) \o "/" \o ToString(max) \o ")..."

\* A slip: the retry waits the built-in interval, not the configured one.
RetryTimerDefaultDelay(s) ==
  [ url       |-> sockets[s].url,
    protocols |-> sockets[s].protocols,
    delay     |-> DefaultConfig.reconnectIntervalMs,
    from      |-> s ]

\* The callback setTimeout receives in the close listener of socket s, with
\* the url and protocols of its closure and the delay it is given.
RetryTimer(s) ==
  [ url       |-> sockets[s].url,
    protocols |-> sockets[s].protocols,
    delay     |-> Prop(config, "reconnectIntervalMs"),
    from      |-> s ]

\* ws.addEventListener("close", ...).  A close is clean only after the closing
\* handshake, hence only on a socket that has opened.
OnClose(s, wasClean) ==
  /\ sockets[s].readyState # "CLOSED"
  /\ wasClean => sockets[s].readyState = "OPEN"
  /\ sockets' = [sockets EXCEPT ![s].readyState = "CLOSED", ![s].wasClean = wasClean]
  /\ activeConnections' = activeConnections \ {s}
  /\ IF /\ Comparable(config, "maxReconnectAttempts")
        /\ ShouldRetry(wasClean, reconnectAttempts, config.maxReconnectAttempts)
       THEN /\ reconnectAttempts' = reconnectAttempts + 1
            /\ UpdateStatus("reconnecting",
                 ReconnectingMessage(reconnectAttempts + 1, config.maxReconnectAttempts))
            /\ timers' = Append(timers, RetryTimer(s))
       ELSE /\ IF /\ Comparable(config, "maxReconnectAttempts")
                  /\ RetriesExhausted(reconnectAttempts, config.maxReconnectAttempts)
                 THEN UpdateStatus("failed", "Connection failed")
                 ELSE UpdateStatus("disconnected", "Disconnected")
            /\ UNCHANGED <<reconnectAttempts, timers>>
  /\ UNCHANGED <<config, domLoading, restoreTimers, pageRefs, reruns, http>>

\* A slip: the error listener counts the error as a failed attempt.
OnErrorCounts(s) ==
  /\ sockets[s].readyState # "CLOSED"
  /\ UpdateStatus("disconnected", "Connection error")
  /\ reconnectAttempts' = IF reconnectAttempts < config.maxReconnectAttempts
                            THEN reconnectAttempts + 1 ELSE reconnectAttempts
  /\ UNCHANGED <<config, activeConnections, sockets, timers,
                 domLoading, restoreTimers, pageRefs, reruns, http>>

\* A slip: the error listener schedules a retry of its own.
OnErrorSchedulesRetry(s) ==
  /\ sockets[s].readyState # "CLOSED"
  /\ UpdateStatus("disconnected", "Connection error")
  /\ timers' = Append(timers, RetryTimer(s))
  /\ UNCHANGED <<config, reconnectAttempts, activeConnections, sockets,
                 domLoading, restoreTimers, pageRefs, reruns, http>>

\* ws.addEventListener("error", ...)
OnError(s) ==
  /\ sockets[s].readyState # "CLOSED"
  /\ UpdateStatus("disconnected", "Connection error")
  /\ UNCHANGED <<config, reconnectAttempts, activeConnections, sockets, timers,
                 domLoading, restoreTimers, pageRefs, reruns, http>>

\* The retry callback: new BetterWebSocket(url, protocols).  Retry timers all
\* carry the same delay, so they fire in the order they were scheduled.  The
\* native constructor throws only on the syntax of its arguments, which it
\* accepted when the closed socket was made, so the catch branch is not taken.
TimerFire ==
  /\ timers # <<>>
  /\ BetterWebSocket(Head(timers).url, Head(timers).protocols, Head(timers).from)
  /\ timers' = Tail(timers)
  /\ UNCHANGED <<config, reconnectAttempts, statusIndicator, currentState,
                 fadeTimers, domLoading, restoreTimers, pageRefs, reruns, http>>

-----------------------------------------------------------------------------
(* Document and network events. *)

\* document.addEventListener("DOMContentLoaded", ...)
DOMContentLoaded ==
  /\ domLoading
  /\ domLoading' = FALSE
  /\ UpdateStatus("connected", "Ready")
  /\ reruns' = RerunsUpdated("connected", "Ready")
  /\ UNCHANGED <<config, reconnectAttempts, activeConnections, sockets, timers, restoreTimers, pageRefs, http>>

\* A slip: the online listener starts the retry budget afresh.
OnOnlineResets ==
  /\ UpdateStatus("connected", "Back online")
  /\ reruns' = RerunsUpdated("connected", "Back online")
  /\ reconnectAttempts' = 0
  /\ UNCHANGED <<config, activeConnections, sockets, timers, domLoading, restoreTimers, pageRefs, http>>

\* window.addEventListener("online", ...)
OnOnline ==
  /\ UpdateStatus("connected", "Back online")
  /\ reruns' = RerunsUpdated("connected", "Back online")
  /\ UNCHANGED <<config, reconnectAttempts, activeConnections, sockets, timers, domLoading, restoreTimers, pageRefs, http>>

\* window.addEventListener("offline", ...)
OnOffline ==
  /\ UpdateStatus("disconnected", "Offline")
  /\ reruns' = RerunsUpdated("disconnected", "Offline")
  /\ UNCHANGED <<config, reconnectAttempts, activeConnections, sockets, timers, domLoading, restoreTimers, pageRefs, http>>

-----------------------------------------------------------------------------
(* The engine after the script has run. *)

\* The rest of the script's start, whatever the configuration.
Started ==
  /\ reconnectAttempts = 0
  /\ activeConnections = {}
  /\ sockets = <<>>
  /\ timers = <<>>
  /\ domLoading \in BOOLEAN
  \* document.readyState === "loading" ? wait : updateStatus("connected", "Ready")
  /\ currentState = "connected"
  /\ statusIndicator = IF domLoading THEN Null ELSE ReadyIndicator
  /\ fadeTimers = IF domLoading THEN 0 ELSE 1
  /\ restoreTimers = <<>>
  /\ pageRefs = <<>>
  /\ reruns = <<>>

Init ==
  /\ \E w \in WindowConfigs : config = LoadConfig(w)
  /\ Started
  /\ http = Idle

Next ==
  \/ \E k \in 1..Len(PageCalls) : PageNewWebSocket(k)
  \/ \E s \in SocketIds : OnOpen(s)
  \/ \E s \in SocketIds : OnClose(s, TRUE)
  \/ \E s \in SocketIds : OnClose(s, FALSE)
  \/ \E s \in SocketIds : OnError(s)
  \/ (Len(sockets) < MaxSockets /\ TimerFire)
  \/ FadeFire
  \/ DOMContentLoaded
  \/ OnOnline
  \/ OnOffline

Spec == Init /\ [][Next]_vars

\* The same with the user clicking the indicator.
NextClick ==
  \/ Next
  \/ Click
  \/ RestoreFire

SpecClick == Init /\ [][NextClick]_vars

\* The script is executed again in the same page (the proxy's injection and
\* the manual installation together, or the installation used twice): a new
\* closure with let statusIndicator = null, which shows Ready at once unless
\* the document is still loading.
RunScript ==
  /\ Len(reruns) < MaxReruns
  /\ reruns' = Append(reruns,
        IF domLoading
          THEN [statusIndicator |-> Null, currentState |-> "connected", fadeTimers |-> 0]
          ELSE ClosureUpdate([statusIndicator |-> Null, currentState |-> "connected",
                              fadeTimers |-> 0], "connected", "Ready"))
  /\ UNCHANGED <<config, reconnectAttempts, statusIndicator, activeConnections,
                 currentState, sockets, timers, fadeTimers, domLoading,
                 restoreTimers, pageRefs, http>>

\* The fade callback of a later closure.
RerunFadeFire(i) ==
  /\ reruns[i].fadeTimers > 0
  /\ reruns' = [reruns EXCEPT ![i].fadeTimers = @ - 1,
                              ![i].statusIndicator.opacity = "0.7"]
  /\ UNCHANGED <<config, reconnectAttempts, statusIndicator, activeConnections,
                 currentState, sockets, timers, fadeTimers, domLoading,
                 restoreTimers, pageRefs, http>>

\* A page that opens no socket, in which the script may run more than once.
NextReinit ==
  \/ RunScript
  \/ \E i \in 1..Len(reruns) : RerunFadeFire(i)
  \/ FadeFire
  \/ DOMContentLoaded
  \/ OnOnline
  \/ OnOffline

SpecReinit == Init /\ [][NextReinit]_vars

\* The engine in a page whose global lacks settings.
InitMalformed ==
  /\ \E w \in MalformedConfigs : config = LoadConfig(w)
  /\ Started
  /\ http = Idle

SpecMalformed == InitMalformed /\ [][Next]_vars

\* A page that opens one socket whose connections all drop before opening:
\* no open and no clean close is delivered, every connection closes uncleanly
\* and every scheduled retry timer fires.
NextDrop ==
  \/ PageNewWebSocket(1)
  \/ \E s \in SocketIds : OnClose(s, FALSE)
  \/ \E s \in SocketIds : OnError(s)
  \/ TimerFire
  \/ FadeFire
  \/ DOMContentLoaded
  \/ OnOnline
  \/ OnOffline

SpecDrop ==
  /\ Init
  /\ [][NextDrop]_vars
  /\ WF_vars(PageNewWebSocket(1))
  /\ WF_vars(\E s \in SocketIds : OnClose(s, FALSE))
  /\ WF_vars(TimerFire)

\* A page that opens exactly one socket and constructs no other itself.
NextSingle ==
  \/ PageNewWebSocket(1)
  \/ \E s \in SocketIds : OnOpen(s)
  \/ \E s \in SocketIds : OnClose(s, TRUE)
  \/ \E s \in SocketIds : OnClose(s, FALSE)
  \/ \E s \in SocketIds : OnError(s)
  \/ (Len(sockets) < MaxSockets /\ TimerFire)
  \/ FadeFire
  \/ DOMContentLoaded
  \/ OnOnline
  \/ OnOffline

SpecSingle == Init /\ [][NextSingle]_vars

-----------------------------------------------------------------------------
(* The whole script executed again in a page that opens sockets.  Each       *)
(* execution has its own closure (counter, indicator, connection set) and     *)
(* wraps the constructor it finds in window.WebSocket, which is the wrapper   *)
(* of the execution before: a socket constructed through the wrapper of       *)
(* closure j carries the listeners of the closures 0..j, registered in that   *)
(* order.  Closure 0 is the first execution (the module's variables), closure *)
(* j > 0 is reruns[j].                                                        *)

\* The closure of a further execution, at its start: let reconnectAttempts =
\* 0, let statusIndicator = null, new Set(), then updateStatus("connected",
\* "Ready") unless the document is still loading.
FreshClosure ==
  LET c == [ statusIndicator   |-> Null,
             currentState      |-> "connected",
             fadeTimers        |-> 0,
             reconnectAttempts |-> 0,
             activeConnections |-> {} ]
  IN  IF domLoading THEN c ELSE ClosureUpdate(c, "connected", "Ready") @@ c

\* updateStatus(state, message) in closure c, the rest of c as it was.
ClosureWrote(c, state, message) == ClosureUpdate(c, state, message) @@ c

\* The number of later closures whose listeners socket s carries.
Wrappers(s) == sockets[s].listeners.close - 1

\* The script runs again: window.WebSocket = wrapWebSocket(window.WebSocket).
RunScriptAgain ==
  /\ Len(reruns) < MaxReruns
  /\ reruns' = Append(reruns, FreshClosure)
  /\ UNCHANGED <<config, reconnectAttempts, statusIndicator, activeConnections,
                 currentState, sockets, timers, fadeTimers, domLoading,
                 restoreTimers, pageRefs, http>>

\* new BetterWebSocket(url, protocols) of closure j: the wrappers j, ..., 0
\* call one another, the native socket is constructed once, and every one of
\* them adds it to its set and registers its three listeners on it.
ConstructedBy(j, url, protocols, spawnedBy) ==
  /\ sockets' = Append(sockets,
        [NewSocket(url, protocols, spawnedBy) EXCEPT
           !.listeners = [open |-> j + 1, close |-> j + 1, error |-> j + 1]])
  /\ activeConnections' = activeConnections \cup {Len(sockets) + 1}
  /\ reruns' = [i \in 1..Len(reruns) |->
                  IF i <= j
                    THEN [reruns[i] EXCEPT !.activeConnections = @ \cup {Len(sockets) + 1}]
                    ELSE reruns[i]]

\* Page code: new WebSocket(url, protocols), the wrapper installed last.
PageNewWebSocketAgain(k) ==
  /\ Len(sockets) < MaxSockets
  /\ k = Cardinality({s \in SocketIds : sockets[s].spawnedBy = 0}) + 1
  /\ ConstructedBy(Len(reruns), PageCalls[k].url, PageCalls[k].protocols, 0)
  /\ pageRefs' = Append(pageRefs, ReturnedSocket)
  /\ UNCHANGED <<config, reconnectAttempts, statusIndicator, currentState,
                 timers, fadeTimers, domLoading, restoreTimers, http>>

\* The open listener of a later closure.
ClosureOpen(c) ==
  [ClosureWrote(c, "connected", "Connected") EXCEPT !.reconnectAttempts = 0]

\* An open event: the open listener of every closure on the socket runs.
OnOpenAll(s) ==
  /\ sockets[s].readyState = "CONNECTING"
  /\ sockets' = [sockets EXCEPT ![s].readyState = "OPEN", ![s].opened = TRUE]
  /\ reconnectAttempts' = AttemptsAfterOpen
  /\ UpdateStatus("connected", "Connected")
  /\ reruns' = [i \in 1..Len(reruns) |->
                  IF i <= Wrappers(s) THEN ClosureOpen(reruns[i]) ELSE reruns[i]]
  /\ UNCHANGED <<config, activeConnections, timers, domLoading, restoreTimers,
                 pageRefs, http>>

\* The counter the close listener of closure j reads.
AttemptsOf(j) == IF j = 0 THEN reconnectAttempts ELSE reruns[j].reconnectAttempts

\* The callback the close listener of closure j gives setTimeout: it calls
\* the BetterWebSocket of its own closure.
RetryTimerBy(s, j) ==
  [ url       |-> sockets[s].url,
    protocols |-> sockets[s].protocols,
    delay     |-> config.reconnectIntervalMs,
    from      |-> s,
    by        |-> j ]

\* The close listener of a later closure.
ClosureClose(c, s, wasClean) ==
  LET d == [c EXCEPT !.activeConnections = @ \ {s}]
  IN  IF ShouldRetry(wasClean, c.reconnectAttempts, config.maxReconnectAttempts)
        THEN [ClosureWrote(d, "reconnecting",
                ReconnectingMessage(c.reconnectAttempts + 1, config.maxReconnectAttempts))
                EXCEPT !.reconnectAttempts = @ + 1]
      ELSE IF RetriesExhausted(c.reconnectAttempts, config.maxReconnectAttempts)
        THEN ClosureWrote(d, "failed", "Connection failed")
      ELSE ClosureWrote(d, "disconnected", "Disconnected")

\* The timers one close event schedules: one for each closure on the socket
\* whose close listener takes the retry branch, in the order of the listeners.
ScheduledBy(s, wasClean) ==
  LET Retries(t) ==
        ShouldRetry(wasClean, AttemptsOf(t.by), config.maxReconnectAttempts)
  IN  SelectSeq([i \in 1..(Wrappers(s) + 1) |-> RetryTimerBy(s, i - 1)], Retries)

\* A close event: the close listener of every closure on the socket runs.
OnCloseAll(s, wasClean) ==
  /\ sockets[s].readyState # "CLOSED"
  /\ wasClean => sockets[s].readyState = "OPEN"
  /\ sockets' = [sockets EXCEPT ![s].readyState = "CLOSED", ![s].wasClean = wasClean]
  /\ activeConnections' = activeConnections \ {s}
  /\ IF ShouldRetry(wasClean, reconnectAttempts, config.maxReconnectAttempts)
       THEN /\ reconnectAttempts' = reconnectAttempts + 1
            /\ UpdateStatus("reconnecting",
                 ReconnectingMessage(reconnectAttempts + 1, config.maxReconnectAttempts))
       ELSE /\ IF RetriesExhausted(reconnectAttempts, config.maxReconnectAttempts)
                 THEN UpdateStatus("failed", "Connection failed")
                 ELSE UpdateStatus("disconnected", "Disconnected")
            /\ UNCHANGED reconnectAttempts
  /\ reruns' = [i \in 1..Len(reruns) |->
                  IF i <= Wrappers(s) THEN ClosureClose(reruns[i], s, wasClean)
                                      ELSE reruns[i]]
  /\ timers' = timers \o ScheduledBy(s, wasClean)
  /\ UNCHANGED <<config, domLoading, restoreTimers, pageRefs, http>>

\* An error event: the error listener of every closure on the socket runs.
OnErrorAll(s) ==
  /\ sockets[s].readyState # "CLOSED"
  /\ UpdateStatus("disconnected", "Connection error")
  /\ reruns' = [i \in 1..Len(reruns) |->
                  IF i <= Wrappers(s)
                    THEN ClosureWrote(reruns[i], "disconnected", "Connection error")
                    ELSE reruns[i]]
  /\ UNCHANGED <<config, reconnectAttempts, activeConnections, sockets, timers,
                 domLoading, restoreTimers, pageRefs, http>>

\* A retry callback runs: new BetterWebSocket(url, protocols) of its closure.
TimerFireBy ==
  /\ timers # <<>>
  /\ Len(sockets) < MaxSockets
  /\ ConstructedBy(Head(timers).by, Head(timers).url, Head(timers).protocols,
                   Head(timers).from)
  /\ timers' = Tail(timers)
  /\ UNCHANGED <<config, reconnectAttempts, statusIndicator, currentState,
                 fadeTimers, domLoading, restoreTimers, pageRefs, http>>

\* A loaded page (the script is run again by hand on the open page) that
\* opens one socket.
InitAgain == Init /\ ~domLoading

NextAgain ==
  \/ RunScriptAgain
  \/ PageNewWebSocketAgain(1)
  \/ \E s \in SocketIds : OnOpenAll(s)
  \/ \E s \in SocketIds : OnCloseAll(s, TRUE)
  \/ \E s \in SocketIds : OnCloseAll(s, FALSE)
  \/ \E s \in SocketIds : OnErrorAll(s)
  \/ TimerFireBy
  \/ FadeFire
  \/ \E i \in 1..Len(reruns) : RerunFadeFire(i)

SpecAgain == InitAgain /\ [][NextAgain]_vars

-----------------------------------------------------------------------------
(* The plugin's HTTP handler (index.ts).  Text is a string; a body is the     *)
(* sequence of chunks the upstream sends, each a string of bytes.            *)

\* String.prototype.startsWith
StartsWith(str, prefix) ==
  Len(str) >= Len(prefix) /\ SubSeq(str, 1, Len(prefix)) = prefix

\* The positions at which sub occurs in str.
Occurrences(str, sub) ==
  {i \in 1..(Len(str) - Len(sub) + 1) : SubSeq(str, i, i + Len(sub) - 1) = sub}

\* String.prototype.includes
Includes(str, sub) == Occurrences(str, sub) # {}

\* String.prototype.replace with a string pattern: the first occurrence only.
\* (The replacement texts used here hold none of the $ patterns.)
Replace(str, sub, by) ==
  IF ~Includes(str, sub) THEN str
  ELSE LET i == CHOOSE k \in Occurrences(str, sub) :
                  \A j \in Occurrences(str, sub) : k <= j
       IN  SubSeq(str, 1, i - 1) \o by \o SubSeq(str, i + Len(sub), Len(str))

\* A chunk that is no valid UTF-8 (0xC3 followed by 0x28), and what decoding
\* makes of it: U+FFFD for the broken lead byte, then the "(".
RawBytes == "\\xC3\\x28"
Replacement == "\\uFFFD("

\* Buffer.toString("utf-8") of one chunk.
Utf8Decode(chunk) == IF chunk = RawBytes THEN Replacement ELSE chunk

\* Buffer.concat(chunks), as one string of bytes.
RECURSIVE Concat(_)
Concat(chunks) ==
  IF chunks = <<>> THEN "" ELSE Head(chunks) \o Concat(Tail(chunks))

\* Buffer.concat(chunks).toString("utf-8")
RECURSIVE ConcatDecoded(_)
ConcatDecoded(chunks) ==
  IF chunks = <<>> THEN "" ELSE Utf8Decode(Head(chunks)) \o ConcatDecoded(Tail(chunks))

\* Buffer.byteLength, in the bytes of the model's text.
ByteLength(str) == Len(str)

DEFAULT_CONFIG ==
  [ upstreamHost |-> "localhost", upstreamPort |-> 18789,
    reconnectIntervalMs |-> 3000, maxReconnectAttempts |-> 10 ]

\* api.pluginConfig as the host hands it over.
PluginConfigs ==
  { DEFAULT_CONFIG,
    [ upstreamHost |-> "gw.local", upstreamPort |-> 8080,
      reconnectIntervalMs |-> 500, maxReconnectAttempts |-> 3 ] }

\* readFileSync(scriptPath, "utf-8"): the text of inject.js.
InjectScript == "(function () { /* inject.js */ })();"

ConfigAssignment == "window.__BETTER_GATEWAY_CONFIG__ = "

\* The configScript template of injectScriptIntoHtml.
ConfigScript(cfg) ==
  "<script>\n" \o ConfigAssignment
    \o "{\"reconnectIntervalMs\":" \o ToString(cfg.reconnectIntervalMs)
    \o ",\"maxReconnectAttempts\":" \o ToString(cfg.maxReconnectAttempts) \o "}"
    \o ";\n</script>"

\* const injection = `${configScript}<script>${script}</script>`
Injection(cfg) == ConfigScript(cfg) \o "<script>" \o InjectScript \o "</script>"

\* function injectScriptIntoHtml(html, config)
InjectScriptIntoHtml(html, cfg) ==
  IF Includes(html, "</body>")
    THEN Replace(html, "</body>", Injection(cfg) \o "</body>")
  ELSE IF Includes(html, "</html>")
    THEN Replace(html, "</html>", Injection(cfg) \o "</html>")
  ELSE html \o Injection(cfg)

\* Inbound requests, as new URL(req.url, ...) splits them, with the bytes of
\* the request body.
Requests ==
  { [pathname |-> "/",                    search |-> "",     method |-> "GET",
     body |-> ""],
    [pathname |-> "/other",               search |-> "",     method |-> "GET",
     body |-> ""],
    [pathname |-> "/better-gateway",      search |-> "",     method |-> "GET",
     body |-> ""],
    [pathname |-> "/better-gateway/",     search |-> "?a=1", method |-> "GET",
     body |-> "ignored"],
    [pathname |-> "/better-gateway/chat", search |-> "",     method |-> "POST",
     body |-> "{\"msg\":1}"],
    [pathname |-> "/better-gatewayx",     search |-> "",     method |-> "GET",
     body |-> ""],
    [pathname |-> "/better-gateway-old/", search |-> "",     method |-> "HEAD",
     body |-> ""],
    [pathname |-> "/better-gateway/unknown",   search |-> "", method |-> "GET",
     body |-> ""],
    [pathname |-> "/better-gateway/inject.js", search |-> "", method |-> "GET",
     body |-> ""],
    [pathname |-> "/better-gateway/better-gateway/x",
     search |-> "?next=/better-gateway/y", method |-> "DELETE", body |-> "x"],
    [pathname |-> "/better-gateway/item", search |-> "?id=7", method |-> "PUT",
     body |-> ""] }

\* Bodies the upstream sends, in chunks.
Bodies ==
  { << "<html><head><title>t</title></head>", "<body><p>x</p></body></html>" >>,
    << "<html><body>hi</body></html>" >>,
    << "<html><p>x</p></html>" >>,
    << "<p>fragment</p>" >>,
    << "{\"a\":1}", RawBytes >>,
    << >> }

\* content-type values of the upstream; "" stands for a response without one.
ContentTypes == {"text/html", "text/html; charset=utf-8", "application/json", ""}

\* proxyRes.headers of a response with the given content type and body.
UpstreamHeaders(contentType, body) ==
  LET rest == ("content-length" :> ToString(ByteLength(Concat(body))))
                @@ ("x-frame-options" :> "DENY")
  IN  IF contentType = "" THEN rest ELSE ("content-type" :> contentType) @@ rest

\* What the upstream does with the proxied request: it answers, or the
\* connection to it fails.
Upstreams ==
  { [kind |-> "response", statusCode |-> st, headers |-> UpstreamHeaders(ct, b), body |-> b] :
      st \in {200, 404}, ct \in ContentTypes, b \in Bodies }
    \cup { [kind |-> "error", message |-> m] :
             m \in {"connect ECONNREFUSED", "connect ETIMEDOUT", "getaddrinfo ENOTFOUND"} }

NoProxyReq == [issued |-> FALSE]
NoResponse == [written |-> FALSE]

\* A slip: the query string is not carried over.
TargetPathNoQuery(pathname, search) ==
  LET rest == SubSeq(pathname, Len("/better-gateway") + 1, Len(pathname))
  IN  IF rest = "" THEN "/" ELSE rest

\* pathname.replace(/^\/better-gateway/, "") || "/", then the query string.
TargetPath(pathname, search) ==
  LET rest == SubSeq(pathname, Len("/better-gateway") + 1, Len(pathname))
  IN  (IF rest = "" THEN "/" ELSE rest) \o search

\* A slip: only POST bodies are forwarded.
ForwardsBodyPostOnly(method) == method = "POST"

\* req.method !== "GET" && req.method !== "HEAD"
ForwardsBody(method) == method \notin {"GET", "HEAD"}

\* pathname.startsWith("/better-gateway")
ShouldHandle(pathname) == StartsWith(pathname, "/better-gateway")

\* proxyRes.headers["content-type"] || ""
ContentTypeOf(headers) ==
  IF "content-type" \in DOMAIN headers THEN headers["content-type"] ELSE ""

\* contentType.includes("text/html")
IsHtml(headers) == Includes(ContentTypeOf(headers), "text/html")

\* { ...proxyRes.headers } with content-length deleted and set anew.
RewrittenHeaders(headers, modified) ==
  [n \in DOMAIN headers \cup {"content-length"} |->
     IF n = "content-length" THEN ToString(ByteLength(modified)) ELSE headers[n]]

\* A slip: the piped chunk passes through a text decoder.
PipedChunkDecoded(chunk) == Utf8Decode(chunk)

\* proxyRes.pipe(res): the chunk as res receives it.
PipedChunk(chunk) == chunk

engineVars == <<config, reconnectAttempts, statusIndicator, activeConnections,
                currentState, sockets, timers, fadeTimers, domLoading,
                restoreTimers, pageRefs, reruns>>

\* The registered handler up to its await: the namespace check, then
\* proxyRequest issues the upstream request.
HandleRequest ==
  /\ http.pc = "received"
  /\ IF ~ShouldHandle(http.req.pathname)
       THEN http' = [http EXCEPT !.pc = "done", !.result = "false"]
       ELSE http' = [http EXCEPT
              !.pc = "proxying",
              !.upstreamRequests = @ + 1,
              !.proxyReq =
                [ issued   |-> TRUE,
                  hostname |-> http.pluginConfig.upstreamHost,
                  port     |-> http.pluginConfig.upstreamPort,
                  path     |-> TargetPath(http.req.pathname, http.req.search),
                  method   |-> http.req.method,
                  host     |-> http.pluginConfig.upstreamHost \o ":"
                                 \o ToString(http.pluginConfig.upstreamPort),
                  \* req.pipe(proxyReq), or proxyReq.end()
                  body     |-> IF ForwardsBody(http.req.method)
                                 THEN [piped |-> TRUE, bytes |-> http.req.body]
                                 ELSE [piped |-> FALSE, bytes |-> ""] ] ]
  /\ UNCHANGED engineVars

\* The response callback of httpRequest: the HTML branch starts buffering, the
\* other writes the head and starts piping.
OnResponse ==
  /\ http.pc = "proxying"
  /\ http.upstream.kind = "response"
  /\ IF IsHtml(http.upstream.headers)
       THEN http' = [http EXCEPT !.pc = "buffering", !.pending = http.upstream.body]
       ELSE http' = [http EXCEPT
              !.pc = "piping",
              !.pending = http.upstream.body,
              !.res = [ written    |-> TRUE,
                        statusCode |-> http.upstream.statusCode,
                        headers    |-> http.upstream.headers,
                        body       |-> <<>>,
                        ended      |-> FALSE ] ]
  /\ UNCHANGED engineVars

\* proxyRes.on("data", (chunk) => chunks.push(chunk))
OnData ==
  /\ http.pc = "buffering"
  /\ http.pending # <<>>
  /\ http' = [http EXCEPT !.chunks = Append(@, Head(http.pending)),
                          !.pending = Tail(@)]
  /\ UNCHANGED engineVars

\* proxyRes.on("end", ...) of the HTML branch
OnEnd ==
  /\ http.pc = "buffering"
  /\ http.pending = <<>>
  /\ LET body     == ConcatDecoded(http.chunks)
         modified == InjectScriptIntoHtml(body, http.pluginConfig)
     IN  http' = [http EXCEPT
           !.pc = "done",
           !.result = "true",
           !.res = [ written    |-> TRUE,
                     statusCode |-> http.upstream.statusCode,
                     headers    |-> RewrittenHeaders(http.upstream.headers, modified),
                     body       |-> <<modified>>,
                     ended      |-> TRUE ] ]
  /\ UNCHANGED engineVars

\* proxyRes.pipe(res): one chunk moves on.
PipeData ==
  /\ http.pc = "piping"
  /\ http.pending # <<>>
  /\ http' = [http EXCEPT !.res.body = Append(@, PipedChunk(Head(http.pending))),
                          !.pending = Tail(@)]
  /\ UNCHANGED engineVars

\* The piped response ends: res is ended and proxyRes.on("end", resolve) runs.
PipeEnd ==
  /\ http.pc = "piping"
  /\ http.pending = <<>>
  /\ http' = [http EXCEPT !.pc = "done", !.result = "true", !.res.ended = TRUE]
  /\ UNCHANGED engineVars

\* proxyRes.on("error", reject): the upstream's stream breaks midway.
OnResponseError ==
  /\ http.pc \in {"buffering", "piping"}
  /\ http.pending # <<>>
  /\ http' = [http EXCEPT !.pc = "done", !.result = "rejected"]
  /\ UNCHANGED engineVars

\* A slip: a failed connection is tried again.
OnProxyErrorRetries ==
  /\ http.pc = "proxying"
  /\ http.upstream.kind = "error"
  /\ http' = [http EXCEPT !.pc = "received"]
  /\ UNCHANGED engineVars

\* proxyReq.on("error", ...)
OnProxyError ==
  /\ http.pc = "proxying"
  /\ http.upstream.kind = "error"
  /\ http' = [http EXCEPT
        !.pc = "done",
        !.result = "true",
        !.res = [ written    |-> TRUE,
                  statusCode |-> 502,
                  headers    |-> ("Content-Type" :> "text/plain"),
                  body       |-> <<"Upstream connection failed: " \o http.upstream.message>>,
                  ended      |-> TRUE ] ]
  /\ UNCHANGED engineVars

\* One request reaches the registered handler; no page is involved.
InitProxy ==
  /\ config = DefaultConfig
  /\ Started
  /\ domLoading
  /\ \E r \in Requests, u \in Upstreams, c \in PluginConfigs :
       http = [ pc           |-> "received",
                req          |-> r,
                upstream     |-> u,
                pluginConfig |-> c,
                proxyReq     |-> NoProxyReq,
                upstreamRequests |-> 0,
                chunks       |-> <<>>,
                pending      |-> <<>>,
                res          |-> NoResponse,
                result       |-> "pending" ]

NextProxy ==
  \/ HandleRequest
  \/ OnResponse
  \/ OnData
  \/ OnEnd
  \/ PipeData
  \/ PipeEnd
  \/ OnResponseError
  \/ OnProxyError

SpecProxy == InitProxy /\ [][NextProxy]_vars

-----------------------------------------------------------------------------
(* configSchema.parse (index.ts).  A JavaScript value carries its type.      *)

JsNull == [t |-> "null"]
JsUndefined == [t |-> "undefined"]
Num(n) == [t |-> "number", v |-> n]
Str(str) == [t |-> "string", v |-> str]
\* An object: its own properties and their values.
Obj(props) == [t |-> "object", o |-> props]

\* The fields of PluginConfig.
ConfigFields ==
  {"upstreamHost", "upstreamPort", "reconnectIntervalMs", "maxReconnectAttempts"}

\* What a raw configuration may carry in a field.
FieldValues(f) ==
  CASE f = "upstreamHost"         -> {Str("gw.local"), JsNull}
    [] f = "upstreamPort"         -> {Num(8080), Num(0)}
    [] f = "reconnectIntervalMs"  -> {Num(5000), Num(0), JsNull}
    [] f = "maxReconnectAttempts" -> {Num(3), Num(0), JsUndefined}

\* The raw values the host can hand to parse: nothing, null, primitives, and
\* objects with any of the fields.
RawConfigs ==
  {JsNull, JsUndefined, Num(0), Num(7), Str("")}
    \cup { Obj(props) : props \in
             UNION { { g \in [F -> UNION {FieldValues(f) : f \in F}] :
                         \A f \in F : g[f] \in FieldValues(f) } :
                     F \in SUBSET ConfigFields } }

\* The values the || operator takes for false.
Falsy(x) ==
  \/ x.t \in {"null", "undefined"}
  \/ x.t = "number" /\ x.v = 0
  \/ x.t = "string" /\ x.v = ""

\* (raw as Partial<PluginConfig>) || {}
ConfigOrEmpty(raw) == IF Falsy(raw) THEN Obj(<<>>) ELSE raw

\* config.f: undefined for a property the value does not have.
Member(x, f) ==
  IF x.t = "object" /\ f \in DOMAIN x.o THEN x.o[f] ELSE JsUndefined

\* x ?? d
Coalesce(x, d) == IF x.t \in {"null", "undefined"} THEN d ELSE x

\* DEFAULT_CONFIG.f as a value.
DefaultOf(f) ==
  IF f = "upstreamHost" THEN Str(DEFAULT_CONFIG[f]) ELSE Num(DEFAULT_CONFIG[f])

\* configSchema.parse(raw)
ParseConfig(raw) ==
  LET cfg == ConfigOrEmpty(raw)
  IN  [ upstreamHost |-> Coalesce(Member(cfg, "upstreamHost"), DefaultOf("upstreamHost")),
        upstreamPort |-> Coalesce(Member(cfg, "upstreamPort"), DefaultOf("upstreamPort")),
        reconnectIntervalMs |->
          Coalesce(Member(cfg, "reconnectIntervalMs"), DefaultOf("reconnectIntervalMs")),
        maxReconnectAttempts |->
          Coalesce(Member(cfg, "maxReconnectAttempts"), DefaultOf("maxReconnectAttempts")) ]

\* The host calls configSchema.parse with a raw configuration.
Parse ==
  /\ http.pc = "raw"
  /\ http' = [pc |-> "parsed", raw |-> http.raw, parsed |-> ParseConfig(http.raw)]
  /\ UNCHANGED engineVars

InitParse ==
  /\ config = DefaultConfig
  /\ Started
  /\ domLoading
  /\ \E raw \in RawConfigs : http = [pc |-> "raw", raw |-> raw]

NextParse == Parse

SpecParse == InitParse /\ [][NextParse]_vars

-----------------------------------------------------------------------------
(* Reading a step: which event the engine has just handled. *)

\* A close event of socket s with the given wasClean is handled in this step.
ClosedBy(s, clean) ==
  /\ sockets[s].readyState # "CLOSED"
  /\ sockets'[s].readyState = "CLOSED"
  /\ sockets'[s].wasClean = clean

\* The open event of socket s is handled in this step.
OpenedBy(s) ==
  /\ sockets[s].readyState = "CONNECTING"
  /\ sockets'[s].readyState = "OPEN"

\* A retry callback runs in this step.
TimerFired == Len(timers') < Len(timers)

\* The indicator shows exactly what updateStatus(state, message) writes.
Shows(state, message) ==
  /\ statusIndicator # Null
  /\ currentState = state
  /\ statusIndicator.innerHTML = InnerHTML(state, message)

\* The same of the state this step leaves.
ShowsNext(state, message) ==
  /\ statusIndicator' # Null
  /\ currentState' = state
  /\ statusIndicator'.innerHTML = InnerHTML(state, message)

\* This step writes the indicator as updateStatus(state, message) does, and the
\* write is visible (the state or the element differs from before).
Wrote(state, message) ==
  /\ currentState' = state
  /\ statusIndicator' = IndicatorAfter(state, message)
  /\ <<currentState, statusIndicator>>' # <<currentState, statusIndicator>>

RetrySockets == {s \in SocketIds : sockets[s].spawnedBy # 0}
ClosedSockets == {s \in SocketIds : sockets[s].readyState = "CLOSED"}

-----------------------------------------------------------------------------
(* C1: in every reachable state 0 <= reconnectAttempts <= maxReconnectAttempts. *)
C1_CounterWithinBudget ==
  /\ reconnectAttempts \in Nat
  /\ config.maxReconnectAttempts \in Nat
  /\ reconnectAttempts <= config.maxReconnectAttempts

\* The budget of 2 is used up after two counted unclean closes.
C1_Witness ==
  /\ config.maxReconnectAttempts = 2
  /\ reconnectAttempts = 2
  /\ Cardinality({s \in ClosedSockets : ~sockets[s].wasClean}) >= 2

(* C2: an unclean close handled while the counter is below the maximum adds  *)
(* exactly 1 to the counter, makes the state Reconnecting with the new       *)
(* counter shown as attempt/max, and schedules exactly one retry timer with  *)
(* delay reconnectIntervalMs; when a retry timer fires it constructs exactly *)
(* one new wrapped connection with the url and protocols of the closed one.  *)
C2_UncleanCloseSchedulesRetry ==
  [][ /\ \A s \in SocketIds :
           ClosedBy(s, FALSE) /\ reconnectAttempts < config.maxReconnectAttempts
           => /\ reconnectAttempts' = reconnectAttempts + 1
              /\ ShowsNext("reconnecting",
                   ReconnectingMessage(reconnectAttempts + 1,
                                       config.maxReconnectAttempts))
              /\ Len(timers') = Len(timers) + 1
              /\ SubSeq(timers', 1, Len(timers)) = timers
              /\ timers'[Len(timers')].delay = config.reconnectIntervalMs
              /\ timers'[Len(timers')].from = s
              /\ Len(sockets') = Len(sockets)
      /\ TimerFired
           => /\ timers' = Tail(timers)
              /\ Len(sockets') = Len(sockets) + 1
              /\ SubSeq(sockets', 1, Len(sockets)) = sockets
              /\ LET closed == sockets[Head(timers).from]
                     new    == sockets'[Len(sockets')]
                 IN  /\ closed.readyState = "CLOSED"
                     /\ new.url = closed.url
                     /\ new.protocols = closed.protocols
                     /\ new.readyState = "CONNECTING"
              /\ activeConnections' = activeConnections \cup {Len(sockets')}
    ]_vars

\* A retry connection made for the second page socket, with its url and
\* protocols, while a further retry is pending.
C2_Witness ==
  /\ \E r \in RetrySockets :
        /\ sockets[r].url = PageCalls[2].url
        /\ sockets[r].protocols = PageCalls[2].protocols
        /\ sockets[sockets[r].spawnedBy].readyState = "CLOSED"
  /\ Len(timers) = 1
  /\ Shows("reconnecting", ReconnectingMessage(2, config.maxReconnectAttempts))

(* C3: an unclean close handled while the counter equals the maximum         *)
(* schedules no retry timer, creates no connection, leaves the counter       *)
(* unchanged and makes the state Failed.                                     *)
C3_ExhaustedCloseFails ==
  [][ \A s \in SocketIds :
        ClosedBy(s, FALSE) /\ reconnectAttempts = config.maxReconnectAttempts
        => /\ timers' = timers
           /\ Len(sockets') = Len(sockets)
           /\ reconnectAttempts' = reconnectAttempts
           /\ ShowsNext("failed", "Connection failed")
    ]_vars

\* Failed after a retry connection used the last attempt of a positive budget.
C3_Witness ==
  /\ Shows("failed", "Connection failed")
  /\ config.maxReconnectAttempts >= 1
  /\ reconnectAttempts = config.maxReconnectAttempts
  /\ \E r \in RetrySockets : sockets[r].readyState = "CLOSED" /\ ~sockets[r].wasClean
  /\ timers = <<>>

(* C4: when an open event of any wrapped socket is handled, the counter is   *)
(* 0 and the state Connected immediately afterwards, whatever they were      *)
(* before; an unclean close that directly follows is counted as attempt 1    *)
(* when the budget is positive, and with a budget of 0 it leaves the counter *)
(* at 0 and makes the state Failed.  (Between the open and the close only a  *)
(* construction, a fade or a retry callback can run while the indicator      *)
(* still shows Connected, and none of them writes the counter.)              *)
C4_OpenResetsCounter ==
  [][ /\ \A s \in SocketIds :
           OpenedBy(s) => /\ reconnectAttempts' = 0
                          /\ ShowsNext("connected", "Connected")
      /\ \A s \in SocketIds :
           ClosedBy(s, FALSE) /\ Shows("connected", "Connected")
           => IF config.maxReconnectAttempts >= 1
                THEN /\ reconnectAttempts' = 1
                     /\ ShowsNext("reconnecting",
                          ReconnectingMessage(1, config.maxReconnectAttempts))
                ELSE /\ reconnectAttempts' = 0
                     /\ ShowsNext("failed", "Connection failed")
    ]_vars

\* C4 as first stated: the unclean close after an open is attempt 1, always.
C4_Original ==
  [][ /\ \A s \in SocketIds :
           OpenedBy(s) => /\ reconnectAttempts' = 0
                          /\ ShowsNext("connected", "Connected")
      /\ \A s \in SocketIds :
           ClosedBy(s, FALSE) /\ Shows("connected", "Connected")
           => reconnectAttempts' = 1
    ]_vars

\* A retry connection opened while the counter stood at 1, then dropped, and
\* the drop is shown as attempt 1.
C4_Witness ==
  /\ \E r \in RetrySockets :
        /\ sockets[r].opened
        /\ sockets[r].readyState = "CLOSED"
        /\ ~sockets[r].wasClean
  /\ reconnectAttempts = 1
  /\ Shows("reconnecting", ReconnectingMessage(1, config.maxReconnectAttempts))

(* C5: once a close event has put the engine in state Failed, the engine     *)
(* creates no connection and no retry timer is scheduled or fires: stated of *)
(* every step taken while the state is Failed, which only the close listener *)
(* writes.                                                                   *)
C5_FailedIsFinal ==
  [][ currentState = "failed"
      => /\ timers' = timers
         /\ RetrySockets' = RetrySockets
    ]_vars

(* C6: after a close event with wasClean = true is handled, the state is     *)
(* Disconnected and the indicator shows the disconnected message, for every  *)
(* value of the counter and of the maximum.                                  *)
C6_CleanCloseDisconnected ==
  [][ \A s \in SocketIds :
        ClosedBy(s, TRUE) => ShowsNext("disconnected", "Disconnected")
    ]_vars

(* C7: handling a close event with wasClean = true schedules no retry timer, *)
(* creates no connection and leaves the counter unchanged, whatever the      *)
(* counter and the state are.                                                *)
C7_CleanCloseNoRetry ==
  [][ \A s \in SocketIds :
        ClosedBy(s, TRUE)
        => /\ timers' = timers
           /\ Len(sockets') = Len(sockets)
           /\ reconnectAttempts' = reconnectAttempts
    ]_vars

\* A clean close handled with budget left (counter 1) and a retry pending.
C7_Witness ==
  /\ \E s \in ClosedSockets : sockets[s].wasClean
  /\ Shows("disconnected", "Disconnected")
  /\ reconnectAttempts = 1
  /\ timers # <<>>

\* Scenario A: the maximum is 2, the page's one socket has opened, no retry
\* connection has opened, and every close so far was unclean.
ScenarioA ==
  /\ config.maxReconnectAttempts = 2
  /\ sockets # <<>>
  /\ sockets[1].opened
  /\ \A s \in SocketIds : s > 1 => sockets[s].spawnedBy # 0 /\ ~sockets[s].opened
  /\ \A s \in ClosedSockets : ~sockets[s].wasClean

(* C8: Scenario A with maxReconnectAttempts = 2: the second unclean close    *)
(* still retries (the indicator shows attempt 2/2 and one timer is pending,  *)
(* which creates the third connection); after the third unclean close the    *)
(* indicator shows the failure state with no timer pending, and no fourth    *)
(* connection is ever created.                                               *)
C8_ScenarioA ==
  [][ ScenarioA'
      => /\ Len(sockets') <= 3
         /\ \A s \in SocketIds :
              ClosedBy(s, FALSE)
              => /\ Cardinality(ClosedSockets') = 2
                    => /\ ShowsNext("reconnecting", ReconnectingMessage(2, 2))
                       /\ Len(timers') = 1
                 /\ Cardinality(ClosedSockets') = 3
                    => /\ ShowsNext("failed", "Connection failed")
                       /\ timers' = <<>>
    ]_vars

\* C8 as first stated: failure after the second unclean close, and no third
\* connection.
C8_Original ==
  [][ ScenarioA'
      => /\ Len(sockets') <= 2
         /\ \A s \in SocketIds :
              ClosedBy(s, FALSE) /\ Cardinality(ClosedSockets') = 2
              => ShowsNext("failed", "Connection failed")
    ]_vars

\* Scenario A run to its end: three connections, all dropped, Failed.
C8_Witness ==
  /\ ScenarioA
  /\ Len(sockets) = 3
  /\ Cardinality(ClosedSockets) = 3
  /\ Shows("failed", "Connection failed")
  /\ timers = <<>>

(* C9: for a page that opens one socket whose every connection closes        *)
(* uncleanly without opening, and with every scheduled timer firing, the     *)
(* engine eventually is in state Failed with no retry timer pending, having  *)
(* created exactly maxReconnectAttempts retry connections; it never creates  *)
(* more, and from some point on nothing is pending and every socket closed.  *)
C9_ReconnectionTerminates ==
  /\ <>( /\ currentState = "failed"
         /\ timers = <<>>
         /\ Cardinality(RetrySockets) = config.maxReconnectAttempts )
  /\ [](Cardinality(RetrySockets) <= config.maxReconnectAttempts)
  /\ <>[]( /\ timers = <<>>
           /\ ClosedSockets = SocketIds
           /\ Cardinality(RetrySockets) = config.maxReconnectAttempts )

\* The budget of 2 spent on two retry connections, then Failed.
C9_Witness ==
  /\ config.maxReconnectAttempts = 2
  /\ Cardinality(RetrySockets) = 2
  /\ ClosedSockets = SocketIds
  /\ Shows("failed", "Connection failed")
  /\ timers = <<>>

\* The socket page code holds for the logical connection of socket s: the one
\* its own new WebSocket(...) returned, to which its handlers are attached.
RECURSIVE PageSocketOf(_)
PageSocketOf(s) ==
  IF sockets[s].spawnedBy = 0 THEN s ELSE PageSocketOf(sockets[s].spawnedBy)

(* C10: after a drop has been recovered (a retry-spawned connection has      *)
(* opened and the state is Connected) the socket object page code holds,     *)
(* with the handlers registered on it, is an open connection.                *)
C10_PageHoldsFreshConnection ==
  \A r \in RetrySockets :
    sockets[r].readyState = "OPEN" /\ currentState = "connected"
    => sockets[PageSocketOf(r)].readyState = "OPEN"

-----------------------------------------------------------------------------
\* The messages the lifecycle and network events pass to updateStatus.
EventMessages ==
  {"Ready", "Connected", "Back online", "Disconnected", "Connection error",
   "Offline", "Connection failed"}
    \cup {ReconnectingMessage(a, config.maxReconnectAttempts) : a \in 1..MaxSockets}

\* The indicator's text is one an event wrote for the current state (or, in
\* state connected, the click feedback not yet restored).
MessageAgrees ==
  \/ \E m \in EventMessages : statusIndicator.innerHTML = InnerHTML(currentState, m)
  \/ currentState = "connected" /\ statusIndicator.innerHTML = AllGoodHTML

\* C11: in every reachable state the indicator's visible message and opacity
\* are those written by the most recent event and agree with the current
\* state: outside state connected the opacity is the "1" the event wrote, and
\* the text carries the current state's icon; no deferred fade or text
\* restore alters the indicator after a later state change.
C11_LastWriteWins ==
  statusIndicator # Null =>
    /\ MessageAgrees
    /\ currentState # "connected" => statusIndicator.opacity = "1"

\* C12: handling an error event of a wrapped socket changes only the
\* indicator, which shows the connection-error message: the retry counter,
\* the pending retry timers and the connections are left unchanged and no
\* connection is created.
C12_ErrorChangesOnlyIndicator ==
  [][ Wrote("disconnected", "Connection error")
        => /\ reconnectAttempts' = reconnectAttempts
           /\ timers' = timers
           /\ sockets' = sockets
           /\ activeConnections' = activeConnections
           /\ UNCHANGED <<config, domLoading, pageRefs>>
    ]_vars

\* The error message is shown while a retry is pending and attempts are counted.
C12_Witness ==
  /\ Shows("disconnected", "Connection error")
  /\ timers # <<>>
  /\ reconnectAttempts >= 1
  /\ \E s \in SocketIds : sockets[s].readyState # "CLOSED"

PageConstructed == Len(pageRefs') = Len(pageRefs) + 1

\* C16: every new WebSocket(url, protocols) executed by page code constructs
\* exactly one native connection with exactly that url and protocols,
\* registers one listener each for open, close and error on it, and returns
\* that connection to the caller.
C16_WrapConstructsAndReturns ==
  [][ PageConstructed
        => /\ Len(sockets') = Len(sockets) + 1
           /\ SubSeq(sockets', 1, Len(sockets)) = sockets
           /\ LET call == PageCalls[Len(pageRefs')]
                  new  == sockets'[Len(sockets')]
              IN  /\ new.url = call.url
                  /\ new.protocols = call.protocols
                  /\ new.spawnedBy = 0
                  /\ new.listeners = [open |-> 1, close |-> 1, error |-> 1]
           /\ pageRefs'[Len(pageRefs')] = Len(sockets')
           /\ SubSeq(pageRefs', 1, Len(pageRefs)) = pageRefs
    ]_vars

\* Page code has made both of its calls, the second with protocols, after a
\* retry socket was constructed in between.
C16_Witness ==
  /\ Len(pageRefs) = 2
  /\ pageRefs[2] > 2
  /\ sockets[pageRefs[2]].url = PageCalls[2].url
  /\ sockets[pageRefs[2]].protocols = <<"protocol1">>
  /\ sockets[pageRefs[1]].url = PageCalls[1].url

\* C15: the configuration is always defaulted: with the global absent, or
\* present but lacking reconnectIntervalMs or maxReconnectAttempts, the engine
\* uses the built-in default for the missing value, so that an unclean close
\* at counter 0 still counts an attempt and schedules a retry.
C15_MissingSettingsDefaulted ==
  [][ \A s \in SocketIds :
        ClosedBy(s, FALSE) /\ reconnectAttempts = 0
          => /\ reconnectAttempts' = 1
             /\ Len(timers') = Len(timers) + 1
             /\ currentState' = "reconnecting"
    ]_vars

\* The elements with id better-gateway-status in the document: each closure
\* appends the one it creates to document.body, and none is ever removed.
IndicatorElements ==
  (IF statusIndicator = Null THEN 0 ELSE 1)
    + Cardinality({i \in 1..Len(reruns) : reruns[i].statusIndicator # Null})

\* C14: however often the script has been initialised in the page, the
\* document contains exactly one indicator element with id
\* better-gateway-status (none only while no closure has shown a status yet).
C14_SingleIndicator ==
  /\ IndicatorElements <= 1
  /\ statusIndicator # Null => IndicatorElements = 1

-----------------------------------------------------------------------------
(* The HTTP handler: what a finished request looks like. *)

\* The reserved namespace: the path /better-gateway and all paths below it.
InNamespace(pathname) ==
  pathname = "/better-gateway" \/ StartsWith(pathname, "/better-gateway/")

\* The handler has answered an upstream HTML response.
HtmlServed ==
  /\ http.pc = "done"
  /\ http.result = "true"
  /\ http.upstream.kind = "response"
  /\ IsHtml(http.upstream.headers)

\* The placement rule of the documented handler: before the closing head tag,
\* else before the closing body tag, else at the end.
ExpectedPlacement(html, block) ==
  IF Includes(html, "</head>")
    THEN Replace(html, "</head>", block \o "</head>")
  ELSE IF Includes(html, "</body>")
    THEN Replace(html, "</body>", block \o "</body>")
  ELSE html \o block

\* const baseTag = `<base href="/">` of the documented handler.
BaseTag == "<base href=\"/\">"

\* C17: the handler handles a request only if its path is /better-gateway or
\* begins with /better-gateway/; for every other path it resolves to false,
\* writes nothing to the response and issues no upstream request.
C17_OnlyNamespaceHandled ==
  (http.pc # "idle" /\ ~InNamespace(http.req.pathname))
    => /\ ~http.proxyReq.issued
       /\ ~http.res.written
       /\ http.result \in {"pending", "false"}
       /\ http.pc = "done" => http.result = "false"

\* C18: for an upstream HTML response the body returned is the upstream body
\* with the configuration-plus-script block inserted exactly once: immediately
\* before the closing head tag when there is one, otherwise immediately before
\* the closing body tag, otherwise appended at the end.
C18_BlockBeforeHeadClose ==
  (http.pc # "idle" /\ HtmlServed)
    => Concat(http.res.body)
         = ExpectedPlacement(ConcatDecoded(http.upstream.body),
                             Injection(http.pluginConfig))

\* C19: for an upstream HTML response (with an opening head tag) the rewritten
\* body contains exactly one configuration assignment and exactly one
\* base-href marker, the marker standing immediately after the opening head
\* tag.
C19_OneAssignmentOneBaseMarker ==
  (http.pc # "idle" /\ HtmlServed
     /\ Includes(ConcatDecoded(http.upstream.body), "<head>"))
    => LET out == Concat(http.res.body)
       IN  /\ Cardinality(Occurrences(out, ConfigAssignment)) = 1
           /\ Cardinality(Occurrences(out, "<base href=")) = 1
           /\ Includes(out, "<head>" \o BaseTag)

C21_UpstreamFailureIs502 ==
  (http.pc # "idle" /\ http.upstream.kind = "error")
    => /\ http.upstreamRequests <= 1
       /\ (http.pc = "done" /\ http.upstreamRequests = 1)
            => /\ http.res.written /\ http.res.ended
               /\ http.res.statusCode = 502
               /\ http.res.headers = ("Content-Type" :> "text/plain")
               /\ Concat(http.res.body)
                    = "Upstream connection failed: " \o http.upstream.message
       /\ (http.pc = "proxying") => ~http.res.written

\* A refused connection has been answered.
C21_Witness ==
  /\ http.pc = "done"
  /\ http.upstream.kind = "error"
  /\ http.upstream.message = "connect ECONNREFUSED"
  /\ http.upstreamRequests = 1
  /\ http.res.statusCode = 502

\* C22: for every request whose path is in the reserved namespace the
\* handler's promise resolves to true and never rejects, whatever the upstream
\* does: answers in full, refuses the connection, or fails after it has begun
\* to answer.
C22_NamespaceAlwaysResolvesTrue ==
  (http.pc = "done" /\ InNamespace(http.req.pathname)) => http.result = "true"

\* C23: a request to an unknown sub-path of the namespace is answered 404
\* with the plain text "Not found" and the handler resolves to true, while
\* /better-gateway/ with a healthy upstream returns the upstream's (possibly
\* rewritten) body with status 200.
C23_UnknownSubPathNotFound ==
  (http.pc = "done" /\ http.result = "true" /\ http.upstream.kind = "response")
    => /\ http.req.pathname = "/better-gateway/unknown"
            => /\ http.res.statusCode = 404
               /\ "Content-Type" \in DOMAIN http.res.headers
               /\ http.res.headers["Content-Type"] = "text/plain"
               /\ Concat(http.res.body) = "Not found"
       /\ (http.req.pathname = "/better-gateway/" /\ http.upstream.statusCode = 200)
            => http.res.statusCode = 200

\* C24: for a proxied request with path /better-gateway + P and query string
\* Q the upstream request carries the same method and the path P (or / when
\* P is empty) followed by Q: putting the prefix back in front of the
\* upstream path gives the inbound path and query again.
C24_PrefixStrippedQueryKept ==
  (http.pc # "idle" /\ http.proxyReq.issued)
    => /\ http.proxyReq.method = http.req.method
       /\ IF http.req.pathname = "/better-gateway"
            THEN http.proxyReq.path = "/" \o http.req.search
            ELSE "/better-gateway" \o http.proxyReq.path
                   = http.req.pathname \o http.req.search

\* A path that repeats the prefix, with a query that names it too, is proxied.
C24_Witness ==
  /\ http.pc # "idle"
  /\ http.proxyReq.issued
  /\ http.proxyReq.path = "/better-gateway/x?next=/better-gateway/y"
  /\ http.proxyReq.method = "DELETE"

ConfigPrecedesScript(body, cfg) ==
  \E i \in Occurrences(body, ConfigAssignment), j \in Occurrences(body, InjectScript) :
    /\ i < j
    /\ Includes(SubSeq(body, i, j - 1), ToString(cfg.reconnectIntervalMs))
    /\ Includes(SubSeq(body, i, j - 1), ToString(cfg.maxReconnectAttempts))

\* C26: every body the server emits that carries the reconnect script, the
\* rewritten HTML page and the answer to /better-gateway/inject.js, holds the
\* assignment of the global configuration with the configured
\* reconnectIntervalMs and maxReconnectAttempts before the script text.
C26_ConfigBeforeScript ==
  /\ (http.pc # "idle" /\ HtmlServed)
       => ConfigPrecedesScript(Concat(http.res.body), http.pluginConfig)
  /\ (/\ http.pc = "done"
      /\ http.result = "true"
      /\ http.upstream.kind = "response"
      /\ http.req.pathname = "/better-gateway/inject.js")
       => ConfigPrecedesScript(Concat(http.res.body), http.pluginConfig)

-----------------------------------------------------------------------------
(* Retry timers and logical connections. *)

\* This step leaves every pending retry timer pending, in its place.
TimersKept ==
  /\ Len(timers') >= Len(timers)
  /\ SubSeq(timers', 1, Len(timers)) = timers

\* This step runs the retry callback that was scheduled first: it leaves the
\* queue and one connection is constructed with the url and protocols of the
\* closed socket that scheduled it.
HeadTimerRan ==
  /\ timers # <<>>
  /\ timers' = Tail(timers)
  /\ Len(sockets') = Len(sockets) + 1
  /\ SubSeq(sockets', 1, Len(sockets)) = sockets
  /\ sockets'[Len(sockets')] =
       NewSocket(Head(timers).url, Head(timers).protocols, Head(timers).from)

\* C28: a scheduled retry timer is never cancelled: whatever is handled while
\* it waits (the open of another connection with its reset of the counter, a
\* clean close, an error, online, offline) leaves it pending with the delay
\* reconnectIntervalMs, and it leaves the queue only by firing, which
\* constructs a new connection.
C28_TimerNeverCancelled ==
  [][ /\ TimersKept \/ HeadTimerRan
      /\ \A i \in 1..Len(timers') :
           timers'[i].delay = config.reconnectIntervalMs ]_vars

\* A retry waits although a retry-spawned connection has opened since it was
\* scheduled and reset the counter.
C28_Witness ==
  /\ timers # <<>>
  /\ reconnectAttempts = 0
  /\ \E r \in RetrySockets : sockets[r].readyState = "OPEN"

\* The sockets page code constructed itself.
PageSockets == {s \in SocketIds : sockets[s].spawnedBy = 0}

\* The logical connection of page socket p: p and the connections the retry
\* callbacks constructed for it, one after the other.
Chain(p) == {s \in SocketIds : PageSocketOf(s) = p}

\* The connection of p's chain that opened last (0 if none has): a retry is
\* constructed only after its predecessor closed, so later members of the
\* chain were constructed after that open.
LastOpened(p) ==
  LET o == {s \in Chain(p) : sockets[s].opened}
  IN  IF o = {} THEN 0 ELSE CHOOSE m \in o : \A x \in o : x <= m

\* The retry connections constructed for p since its chain last opened.
RetriesSinceOpen(p) ==
  {s \in Chain(p) : sockets[s].spawnedBy # 0 /\ s > LastOpened(p)}

\* C29: when the page holds two or more wrapped sockets the retry budget
\* still bounds each logical connection: between two successful opens of the
\* same logical connection at most maxReconnectAttempts retry connections are
\* constructed for it, whatever the other sockets' opens and closes.
C29_BudgetPerLogicalConnection ==
  Cardinality(PageSockets) >= 2
    => \A p \in PageSockets :
         Cardinality(RetriesSinceOpen(p)) <= config.maxReconnectAttempts

\* The connections constructed and not yet closed.
LiveSockets == {s \in SocketIds : sockets[s].readyState # "CLOSED"}

\* C30: for a page that opens exactly one socket and constructs no other
\* itself, the live connections (constructed, not yet closed) and the pending
\* retry timers together number at most 1 at every moment: a retry waits only
\* for a closed connection, and a retry connection exists only after its
\* predecessor closed and the timer that close scheduled fired.
C30_SingleSocketSequential ==
  /\ Cardinality(LiveSockets) + Len(timers) <= 1
  /\ \A i \in 1..Len(timers) : sockets[timers[i].from].readyState = "CLOSED"
  /\ \A r \in RetrySockets :
       /\ sockets[r].spawnedBy < r
       /\ sockets[sockets[r].spawnedBy].readyState = "CLOSED"
       /\ ~sockets[sockets[r].spawnedBy].wasClean
       /\ \A i \in 1..Len(timers) : timers[i].from # sockets[r].spawnedBy

\* The second retry connection is open, its predecessors closed and nothing
\* waits.
C30_Witness ==
  /\ Cardinality(PageSockets) = 1
  /\ Cardinality(RetrySockets) = 2
  /\ Cardinality(LiveSockets) = 1
  /\ timers = <<>>
  /\ \E r \in RetrySockets : sockets[r].readyState = "OPEN"

-----------------------------------------------------------------------------
\* The field f of the raw configuration carries a value.
Supplied(raw, f) == Member(raw, f).t \notin {"null", "undefined"}

\* C27: configSchema.parse accepts every raw input, null, undefined and the
\* empty object included, and returns for each of reconnectIntervalMs and
\* maxReconnectAttempts the value supplied, or 3000 and 10 when none is; for
\* the empty object the result is exactly
\* {reconnectIntervalMs: 3000, maxReconnectAttempts: 10}.
C27_ParseDefaults ==
  http.pc = "parsed"
    => /\ \A f \in {"reconnectIntervalMs", "maxReconnectAttempts"} :
            /\ f \in DOMAIN http.parsed
            /\ http.parsed[f] = IF Supplied(http.raw, f)
                                  THEN http.raw.o[f]
                                  ELSE Num(DefaultConfig[f])
       /\ http.raw = Obj(<<>>)
            => http.parsed = [ reconnectIntervalMs  |-> Num(3000),
                               maxReconnectAttempts |-> Num(10) ]

-----------------------------------------------------------------------------
\* The response to the caller is complete: the head written, the body ended.
ResponseComplete == http.res.written /\ http.res.ended

\* C31: every request the handler accepts for proxying ends with exactly one
\* complete response, the head written and the body ended, which is the
\* upstream's response or the 502 failure, in every interleaving of the
\* upstream's response, data, end and error events, an error after the
\* upstream's response headers included: when nothing more can happen for the
\* request, the response is complete.
C31_OneCompleteResponse ==
  (http.pc = "done" /\ http.proxyReq.issued)
    => /\ ResponseComplete
       /\ \/ http.upstream.kind = "response"
             /\ http.res.statusCode = http.upstream.statusCode
          \/ http.upstream.kind = "error" /\ http.res.statusCode = 502

-----------------------------------------------------------------------------
\* The counters of all executions of the script, summed.
RECURSIVE AttemptsFrom(_, _)
AttemptsFrom(closures, i) ==
  IF i > Len(closures) THEN 0
  ELSE closures[i].reconnectAttempts + AttemptsFrom(closures, i + 1)

\* C32: if the script has been executed more than once in the page, one
\* unclean close of a socket still schedules at most one replacement
\* connection and is counted once against the retry budget, and the live
\* connections do not multiply with the drops: connections alive or waiting
\* to be constructed never outnumber the sockets the page opened.
C32_OneRetryPerDrop ==
  [][ \A s \in SocketIds :
        ClosedBy(s, FALSE)
          => /\ Len(timers') <= Len(timers) + 1
             /\ reconnectAttempts' + AttemptsFrom(reruns', 1)
                  <= reconnectAttempts + AttemptsFrom(reruns, 1) + 1
             /\ Cardinality({x \in 1..Len(sockets') :
                               sockets'[x].readyState # "CLOSED"}) + Len(timers')
                  <= Cardinality({x \in 1..Len(sockets') :
                                    sockets'[x].spawnedBy = 0}) ]_vars

-----------------------------------------------------------------------------
\* The wrapped sockets that have opened and not yet closed.
OpenSockets == {s \in SocketIds : sockets[s].readyState = "OPEN"}

\* C33: the indicator state tracks the real connections: whenever the state
\* is Connected after at least one socket has been created, some wrapped
\* socket has opened and not yet closed; and whenever the state is Failed, no
\* wrapped socket is open.
C33_StateTracksConnections ==
  /\ (sockets # <<>> /\ currentState = "connected") => OpenSockets # {}
  /\ currentState = "failed" => OpenSockets = {}

====
